---- MODULE Spec2Model ----
(***************************************************************************)
(* A model of the orm package: the result fetcher (fetch.Object and its    *)
(* helpers) and the CRUD statement builders (where, insert, update, del,   *)
(* find, buildInsertManySQL and the older *Mult family).                   *)
(*                                                                         *)
(* A call is modelled as one action: the inputs of the call are drawn in   *)
(* the initial state (pc = "call"), the action runs the whole function and *)
(* leaves its return values and the changed receiver behind (pc = "done"). *)
(***************************************************************************)
EXTENDS Integers, Sequences, FiniteSets, TLC

VARIABLES
    pc,       \* "call": inputs chosen, nothing run yet; "done": the call returned
    \* ---- fetcher ----
    rtype,    \* the record type: a sequence of field descriptors
    hook,     \* receiver of the type's AfterFetch method: "none", "value", "pointer"
    cols,     \* rows.Columns(): the column names of the result set
    rows,     \* the result set: a sequence of rows
    obj0,     \* the receiver as handed to Object
    obj,      \* the receiver now
    cnt,      \* Object's first return value
    err,      \* Object's second return value ("ok" for nil)
    events,   \* driver and hook calls made, in order
    parsed,   \* what parseObject returned: the field map and the error
    \* ---- CRUD ----
    m,        \* the compiled model of the records' type
    objs,     \* the records handed to the call
    op,       \* the function called
    allow,    \* update's cols: the columns to update even when zero
    sent,     \* the statements handed to the engine by the call, in order
    built,    \* the statement the call built last
    cerr,     \* the error the call returned ("ok" for nil)
    \* ---- CREATE TABLE ----
    tabs,     \* the models handed to the call: the names of each one's key indexes
    engine,   \* the engine: which of its Exec calls fails, whether the dialect fails
    ddl,      \* the statements the engine was handed by the call, in order
    derr,     \* the error the call returned ("ok" for nil)
    \* ---- model registry ----
    models,   \* models.items: the entries of the registry, [key, model] each
    since,    \* the types NewModel compiled since the last ClearModels
    ncalls,   \* the number of registry operations made
    last,     \* the last registry operation and what it returned
    \* ---- model compiler ----
    mc,       \* the model being compiled: columns, AI, PK, constraints
    mret      \* the last property applied to it and the error returned

fvars == <<rtype, hook, cols, rows, obj0, obj, cnt, err, events, parsed>>
cvars == <<m, objs, op, allow, sent, built, cerr>>
dvars == <<tabs, engine, ddl, derr>>
rvars == <<models, since, ncalls, last>>
mvars == <<mc, mret>>
xvars == <<dvars, rvars, mvars>>
vars == <<pc, fvars, cvars, xvars>>

\* no CREATE TABLE call is under way
NoCreate ==
    /\ tabs = <<>>
    /\ engine = [failAt |-> 0, sqlErr |-> FALSE]
    /\ ddl = <<>>
    /\ derr = "ok"

\* the registry is not in use
NoRegistry ==
    /\ models = <<>>
    /\ since = {}
    /\ ncalls = 0
    /\ last = [op |-> "", type |-> "", found |-> FALSE, before |-> 0, err |-> "ok"]

\* no model is being compiled
NoCompile ==
    /\ mc = [cols |-> <<>>, AI |-> "", PK |-> <<>>,
             KeyIndexes |-> {}, UniqueIndexes |-> {}, FK |-> {}, Check |-> {},
             constraints |-> <<>>]
    /\ mret = [op |-> "", arg |-> "", flag |-> FALSE, pre |-> <<>>, err |-> "ok"]

\* ------------------------------------------------------------------ bounds
MaxLen == 2     \* longest slice / array receiver
MaxRows == 2    \* most rows in a result set
MaxIdx == 2     \* most key indexes of a model
MaxTypes == 3   \* record types handed to NewModel
MaxCalls == 4   \* longest sequence of registry operations
MaxPK == 2      \* most columns of a primary key
MaxFields == 3  \* most fields of a record type handed to parseObject

\* ------------------------------------------------------------ record types
NilPtr == -1                \* the value of a nil pointer field
Placeholder == <<0, 0>>     \* the throw-away scan target of getColumns

Fld(go, exported, ignore, name, anon, kind, sub) ==
    [go |-> go, exported |-> exported, ignore |-> ignore, name |-> name,
     anon |-> anon, kind |-> kind, sub |-> sub]
Scalar(go, name) == Fld(go, TRUE, FALSE, name, FALSE, "scalar", <<>>)

\* type FetchEmail struct { Email string `orm:"unique(unique_index);nullable;pk"` }
FetchEmail == << Scalar("Email", "") >>

\* type FetchUser struct { FetchEmail; ID `name(id)`; Username; Group `name(group)`;
\*                         Regdate `orm:"-"` }
FetchUser ==
    << Fld("FetchEmail", TRUE, FALSE, "", TRUE, "struct", FetchEmail),
       Scalar("ID", "id"),
       Scalar("Username", ""),
       Scalar("Group", "group"),
       Fld("Regdate", TRUE, TRUE, "", FALSE, "scalar", <<>>) >>

\* a record with a pointer field: struct { ID `name(id)`; Email *string }
PtrUser ==
    << Scalar("ID", "id"),
       Fld("Email", TRUE, FALSE, "", FALSE, "ptr", <<>>) >>

\* a record with two fields of one column name: struct { ID `name(id)`; Alias `name(id)` }
DupUser ==
    << Scalar("ID", "id"),
       Scalar("Alias", "id") >>

\* The field locations of a type: <<i, 0>> is field i, <<i, j>> is field j of
\* the struct that is field i.
Paths(T) ==
    {<<i, 0>> : i \in {k \in 1..Len(T) : T[k].kind # "struct"}}
        \cup UNION {{<<i, j>> : j \in 1..Len(T[i].sub)} :
                        i \in {k \in 1..Len(T) : T[k].kind = "struct"}}

PathKind(T, p) == IF p[2] = 0 THEN T[p[1]].kind ELSE T[p[1]].sub[p[2]].kind

\* reflect.New(itemType).Elem(): every field zero, every pointer nil
ZeroRecord(T) == [p \in Paths(T) |-> IF PathKind(T, p) = "ptr" THEN NilPtr ELSE 0]
\* a record that already holds data (9 in every field, no pointer nil)
PriorRecord(T) == [p \in Paths(T) |-> 9]

\* A slice / array element or the record behind a pointer-to-record receiver:
\* nil marks a nil *T element, v holds the fields.
Elem(isNil, v) == [nil |-> isNil, v |-> v]

\* ------------------------------------------------------------ field map
\* getName without the test for a tag that starts with '-'
getNameKeepsIgnored(field) ==
    IF field.name # "" THEN field.name
    ELSE IF field.exported THEN field.go
    ELSE ""

\* getName: "" when the field is ignored (tag starts with '-') or is
\* unexported without a name(...) tag.
getName(field) ==
    IF field.ignore THEN ""
    ELSE IF field.name # "" THEN field.name
    ELSE IF field.exported THEN field.go
    ELSE ""

Ok == "ok"
ErrInvalidKind == "ErrInvalidKind"
ErrDupName == "ErrDupName"
ErrScan == "ErrScan"
ErrAfterFetch == "ErrAfterFetch"
Panic == "panic"

EmptyMap == [x \in {} |-> Placeholder]

\* (*ret)[name+"."+subname] = val, for every entry of the nested struct's map
Dotted(name, items) ==
    [x \in {name \o "." \o sub : sub \in DOMAIN items} |->
        items[CHOOSE sub \in DOMAIN items : name \o "." \o sub = x]]

\* parseObject's loop over the fields of one struct, from field k on.
\* base = 0 for the record itself, base = i for the struct that is field i.
\* st = [map, val, err]: the map built so far, the record's fields (nil
\* pointer fields are instantiated on the way) and the error returned.
RECURSIVE parseFields(_, _, _, _)
RECURSIVE parseNested(_, _, _, _, _, _)

\* the rest of parseObject's loop after field k, a nested struct named name,
\* has been parsed with result r
parseNested(fields, base, k, st, name, r) ==
    IF r.err # Ok
    THEN [map |-> st.map, val |-> r.val, err |-> r.err]
    ELSE parseFields(fields, base, k + 1,
            [map |-> Dotted(name, r.map) @@ st.map, val |-> r.val, err |-> Ok])

parseFields(fields, base, k, st) ==
    IF k > Len(fields) THEN st
    ELSE
      LET field == fields[k]
          p == IF base = 0 THEN <<k, 0>> ELSE <<base, k>>
      IN
      IF field.anon
      THEN \* parseObject(vf, ret); continue -- the returned error is dropped
           parseFields(fields, base, k + 1,
                       [parseFields(field.sub, k, 1, st) EXCEPT !.err = Ok])
      ELSE IF getName(field) = ""
      THEN parseFields(fields, base, k + 1, st)
      ELSE
        LET name == getName(field)
            \* for vf.Kind() == reflect.Ptr { if vf.IsNil() { vf.Set(reflect.New(..)) } }
            val1 == IF field.kind = "ptr" /\ st.val[p] = NilPtr
                    THEN [st.val EXCEPT ![p] = 0]
                    ELSE st.val
        IN
        IF field.kind = "struct"
        THEN parseNested(fields, base, k, st, name,
                parseFields(field.sub, k, 1,
                            [map |-> EmptyMap, val |-> val1, err |-> Ok]))
        ELSE IF name \in DOMAIN st.map
        THEN [map |-> st.map, val |-> val1, err |-> ErrDupName]
        ELSE parseFields(fields, base, k + 1,
                [map |-> (name :> p) @@ st.map, val |-> val1, err |-> Ok])

\* parseObject(v, ret): v is an element e of type T (or a pointer to it).
parseObject(T, e, ret) ==
    IF e.nil
    THEN [map |-> ret, val |-> e.v, err |-> ErrInvalidKind]
    ELSE parseFields(T, 0, 1, [map |-> ret, val |-> e.v, err |-> Ok])

\* no parseObject call made on its own
NoParsed == [map |-> EmptyMap, val |-> <<>>, err |-> Ok]

\* getColumns: one scan target per result column: the field's location, or
\* the placeholder for a column the map does not know.
columnsOf(r, cs) ==
    [buff |-> IF r.err # Ok THEN <<>>
              ELSE [i \in 1..Len(cs) |->
                      IF cs[i] \in DOMAIN r.map THEN r.map[cs[i]] ELSE Placeholder],
     val |-> r.val,
     err |-> r.err]

getColumns(T, e, cs) == columnsOf(parseObject(T, e, EmptyMap), cs)

\* ------------------------------------------------------------ result rows
\* A row of the result set: bad is the index of the column whose value
\* cannot be converted to a field (0: none), poison makes the record's
\* AfterFetch return an error. Row i carries the value i in every column.
Row(bad, poison) == [bad |-> bad, poison |-> poison]
GoodRow == Row(0, FALSE)

\* rows.Scan(buff...): the targets are assigned in column order, up to the
\* first column that fails to convert. The placeholder is an interface{}
\* and takes any value: a column scanned into it never fails.
Scan(buff, row, i, val) ==
    LET fails == row.bad # 0 /\ buff[row.bad] # Placeholder
        upto == IF fails THEN row.bad - 1 ELSE Len(buff)
        hit == {buff[c] : c \in 1..upto} \ {Placeholder}
    IN [val |-> [p \in DOMAIN val |-> IF p \in hit THEN i ELSE val[p]],
        err |-> IF fails THEN ErrScan ELSE Ok]

\* Implements with the method looked up on the address of the value: every
\* declared hook is found
ImplementsByAddr(vkind, h) == h # "none"

\* v.(AfterFetcher): v is the element as stored ("Ptr": a *T, "Struct": a T).
\* The method set of T holds only the value-receiver methods.
Implements(vkind, h) == h = "value" \/ (h = "pointer" /\ vkind = "Ptr")

\* afterFetch(v)
afterFetch(vkind, h, row) ==
    [called |-> Implements(vkind, h),
     err |-> IF Implements(vkind, h) /\ row.poison THEN ErrAfterFetch ELSE Ok]

\* ---------------------------------------------------------------- fetcher
\* The call's fixed inputs: c = [T, h, ek, cs, rs]: record type, hook
\* receiver, kind of the container's elements, columns, rows.
Ctx(T, h, ek, cs, rs) == [T |-> T, h |-> h, ek |-> ek, cs |-> cs, rs |-> rs]

Ret(items, n, e, ev) == [items |-> items, cnt |-> n, err |-> e, events |-> ev]

\* afterFetch on element i once row ri has been scanned into it with result sc
hookRow(c, vkind, i, ri, items, ev, sc) ==
    LET scanned == [items EXCEPT ![i].v = sc.val]
        af == afterFetch(vkind, c.h, c.rs[ri])
    IN IF sc.err # Ok
       THEN [items |-> scanned, events |-> Append(ev, <<"scanerr", ri>>), err |-> sc.err]
       ELSE [items |-> scanned,
             events |-> IF af.called
                        THEN ev \o << <<"scan", ri>>, <<"hook", ri>> >>
                        ELSE Append(ev, <<"scan", ri>>),
             err |-> af.err]

\* rows.Scan of row ri into element i, whose scan targets are g
scanRow(c, vkind, i, ri, items, ev, g) ==
    IF g.err # Ok
    THEN [items |-> [items EXCEPT ![i].v = g.val], events |-> ev, err |-> g.err]
    ELSE hookRow(c, vkind, i, ri, items, ev, Scan(g.buff, c.rs[ri], ri, g.val))

\* One row into element i: getColumns, rows.Scan, afterFetch. The row has
\* been read (rows.Next) already. vkind is the kind of the value handed to
\* afterFetch. Returns the items, the events and the error of the step.
fetchRow(c, vkind, i, ri, items, ev) ==
    scanRow(c, vkind, i, ri, items, ev, getColumns(c.T, items[i], c.cs))

\* fetchOnceObj from rows.Next() on: g is what getColumns returned
onceRow(c, items, g) ==
    IF g.err # Ok THEN Ret([items EXCEPT ![1].v = g.val], 0, g.err, <<>>)
    ELSE IF Len(c.rs) = 0 THEN Ret([items EXCEPT ![1].v = g.val], 0, Ok, <<>>)
    ELSE LET r == hookRow(c, "Struct", 1, 1, items, << <<"next", 1>> >>,
                          Scan(g.buff, c.rs[1], 1, g.val))
         IN Ret(r.items, IF r.err = Ok THEN 1 ELSE 0, r.err, r.events)

\* fetchOnceObj: val is the struct behind the pointer; getColumns runs
\* before the first rows.Next().
fetchOnceObj(c, items) == onceRow(c, items, getColumns(c.T, items[1], c.cs))

\* for i := 0; (i < l) && rows.Next(); i++ { ... }; i here counts from 1
RECURSIVE fixedLoop(_, _, _, _)
RECURSIVE fixedNext(_, _, _)

\* the loop after iteration i, whose row left r behind
fixedNext(c, i, r) ==
    IF r.err # Ok
    THEN Ret(r.items, 0, r.err, r.events)
    ELSE fixedLoop(c, i + 1, r.items, r.events)

fixedLoop(c, i, items, ev) ==
    IF i > Len(items) \/ i > Len(c.rs)
    THEN Ret(items, Len(items), Ok, ev)   \* return l, nil
    ELSE fixedNext(c, i, fetchRow(c, c.ek, i, i, items, Append(ev, <<"next", i>>)))

\* fetchObjToFixedSlice
fetchObjToFixedSlice(c, items) ==
    IF c.ek \notin {"Struct", "Ptr"}
    THEN Ret(items, 0, ErrInvalidKind, <<>>)
    ELSE fixedLoop(c, 1, items, <<>>)

\* for i := 0; rows.Next(); i++ { count++; ... }; l is the length on entry
RECURSIVE sliceLoop(_, _, _, _, _)
RECURSIVE sliceNext(_, _, _, _)

\* the loop after iteration i, whose row left r behind
sliceNext(c, l, i, r) ==
    IF r.err # Ok
    THEN Ret(r.items, 0, r.err, r.events)
    ELSE sliceLoop(c, l, i + 1, r.items, r.events)

sliceLoop(c, l, i, items, ev) ==
    IF i > Len(c.rs)
    THEN Ret(items, i - 1, Ok, ev)
    ELSE LET ev1 == Append(ev, <<"next", i>>)
         IN IF i > l /\ c.ek = "Struct"
            THEN \* reflect.Append(elem, reflect.New(itemType)): a *T is not
                 \* assignable to the element type T
                 Ret(items, 0, Panic, ev1)
            ELSE sliceNext(c, l, i,
                    fetchRow(c, c.ek, i, i,
                             IF i > l
                             THEN Append(items, Elem(FALSE, ZeroRecord(c.T)))
                             ELSE items,
                             ev1))

\* fetchObjToSlice
fetchObjToSlice(c, items) ==
    IF c.ek \notin {"Struct", "Ptr"}
    THEN Ret(items, 0, ErrInvalidKind, <<>>)
    ELSE sliceLoop(c, Len(items), 1, items, <<>>)

\* ObjectOf with an array by value fetched like a slice
ObjectOfArrayByValue(T, h, cs, rs, o) ==
    LET c == Ctx(T, h, o.ek, cs, rs)
    IN IF o.ptr
       THEN CASE o.kind = "Slice" -> fetchObjToSlice(c, o.items)
              [] o.kind = "Array" -> fetchObjToFixedSlice(c, o.items)
              [] o.kind = "Struct" -> fetchOnceObj(c, o.items)
              [] OTHER -> Ret(o.items, 0, ErrInvalidKind, <<>>)
       ELSE CASE o.kind \in {"Slice", "Array"} -> fetchObjToFixedSlice(c, o.items)
              [] OTHER -> Ret(o.items, 0, ErrInvalidKind, <<>>)

\* Object(rows, obj): o = [ptr, kind, ek, items]. kind is the kind of obj, or
\* of what obj points to when obj is a pointer.
ObjectOf(T, h, cs, rs, o) ==
    LET c == Ctx(T, h, o.ek, cs, rs)
    IN IF o.ptr
       THEN CASE o.kind = "Slice" -> fetchObjToSlice(c, o.items)
              [] o.kind = "Array" -> fetchObjToFixedSlice(c, o.items)
              [] o.kind = "Struct" -> fetchOnceObj(c, o.items)
              [] OTHER -> Ret(o.items, 0, ErrInvalidKind, <<>>)
       ELSE CASE o.kind = "Slice" -> fetchObjToFixedSlice(c, o.items)
              [] OTHER -> Ret(o.items, 0, ErrInvalidKind, <<>>)

\* ------------------------------------------------------- fetcher: inputs
SeqsUpTo(S, n) == UNION {[1..k -> S] : k \in 0..n}

\* A record type with the receiver of its AfterFetch method.
Declared ==
    {<<FetchUser, h>> : h \in {"none", "value", "pointer"}}
        \cup {<<PtrUser, "pointer">>, <<DupUser, "none">>}

ColumnSets == {<<"id", "Email">>, <<"id", "Regdate">>}

RowKinds == {Row(0, FALSE), Row(0, TRUE), Row(1, FALSE), Row(2, FALSE)}

ElemsOf(T, ek) ==
    CASE ek = "Struct" -> {Elem(FALSE, ZeroRecord(T)), Elem(FALSE, PriorRecord(T))}
      [] ek = "Ptr" -> {Elem(FALSE, PriorRecord(T)), Elem(TRUE, ZeroRecord(T))}
      [] OTHER -> {Elem(FALSE, <<>>)}

Recv(ptr, kind, ek, items) == [ptr |-> ptr, kind |-> kind, ek |-> ek, items |-> items]

\* What a caller can hand to Object: containers of records, of pointers to
\* records and of integers, by value and by pointer; a record by value and by
\* pointer; an integer, nil, a nil pointer, a pointer to a pointer.
Receivers(T) ==
    UNION {{Recv(ptr, kind, ek, items) :
                ptr \in BOOLEAN, kind \in {"Slice", "Array"},
                items \in SeqsUpTo(ElemsOf(T, ek), MaxLen)} :
           ek \in {"Struct", "Ptr", "Int"}}
        \cup {Recv(ptr, "Struct", "None", <<e>>) :
                ptr \in BOOLEAN, e \in ElemsOf(T, "Struct")}
        \cup {Recv(FALSE, k, "None", <<>>) : k \in {"Int", "Invalid"}}
        \cup {Recv(TRUE, k, "None", <<>>) : k \in {"Int", "Invalid", "Ptr"}}

\* ------------------------------------------------------ fetcher: machine
\* no CRUD call is under way
NoCrud ==
    /\ m = [PK |-> <<>>, UniqueIndexes |-> <<>>, AI |-> "", HasDefault |-> {}, NoField |-> {}]
    /\ objs = <<>>
    /\ op = ""
    /\ allow = <<>>
    /\ sent = <<>>
    /\ built = [kind |-> "", keys |-> <<>>, vals |-> <<>>, tuples |-> <<>>,
                wkeys |-> <<>>, wvals |-> <<>>, wtext |-> <<>>]
    /\ cerr = "ok"

InitFetch ==
    /\ pc = "call"
    /\ NoCrud
    /\ NoCreate /\ NoRegistry /\ NoCompile
    /\ \E d \in Declared :
         /\ rtype = d[1]
         /\ hook = d[2]
         /\ obj0 \in Receivers(d[1])
    /\ cols \in ColumnSets
    /\ rows \in SeqsUpTo(RowKinds, MaxRows)
    /\ obj = obj0
    /\ cnt = 0
    /\ err = Ok
    /\ events = <<>>
    /\ parsed = NoParsed

\* cnt, err := Object(rows, obj)
Object ==
    /\ pc = "call"
    /\ \E r \in {ObjectOf(rtype, hook, cols, rows, obj0)} :
          /\ obj' = [obj0 EXCEPT !.items = r.items]
          /\ cnt' = r.cnt
          /\ err' = r.err
          /\ events' = r.events
    /\ pc' = "done"
    /\ UNCHANGED <<rtype, hook, cols, rows, obj0, parsed>>
    /\ UNCHANGED <<cvars, xvars>>

NextFetch == Object

SpecFetch == InitFetch /\ [][NextFetch]_vars

\* ------------------------------------------------------ fetcher: claims
Min(a, b) == IF a < b THEN a ELSE b
Max(a, b) == IF a > b THEN a ELSE b

Done == pc = "done"
RecordElems(o) == o.ek \in {"Struct", "Ptr"}
\* pointer to a slice of records / of pointers to records
IsPtrSlice(o) == o.ptr /\ o.kind = "Slice" /\ RecordElems(o)
\* slice by value, or pointer to an array
IsFixed(o) ==
    /\ RecordElems(o)
    /\ (~o.ptr /\ o.kind = "Slice") \/ (o.ptr /\ o.kind = "Array")
IsPtrRecord(o) == o.ptr /\ o.kind = "Struct"
ValidShape(o) == IsPtrSlice(o) \/ IsFixed(o) \/ IsPtrRecord(o)

\* the record type yields a field map, no element is a nil pointer, every
\* row scans and no hook fails: nothing but the fetcher can go wrong
ParseOk(T) == parseObject(T, Elem(FALSE, ZeroRecord(T)), EmptyMap).err = Ok
NoNilElem(o) == \A i \in 1..Len(o.items) : ~o.items[i].nil
CleanInputs ==
    /\ ParseOk(rtype)
    /\ NoNilElem(obj0)
    /\ \A i \in 1..Len(rows) : rows[i] = GoodRow

\* element e holds row i: every result column the type maps holds i
HoldsRow(e, i) ==
    LET g == getColumns(rtype, e, cols)
    IN \A c \in 1..Len(cols) : g.buff[c] # Placeholder => e.v[g.buff[c]] = i

\* (C3) A slice by value or a pointer to an array of length L, fetched from R
\* rows: the first min(R, L) elements hold the rows, the length stays L, the
\* other elements keep their values and the count returned is min(R, L).
C3_FixedCountIsMin ==
    (Done /\ IsFixed(obj0) /\ CleanInputs) =>
        /\ err = Ok
        /\ Len(obj.items) = Len(obj0.items)
        /\ \A i \in 1..Len(obj.items) :
             IF i <= Len(rows) THEN HoldsRow(obj.items[i], i)
             ELSE obj.items[i] = obj0.items[i]
        /\ cnt = Min(Len(rows), Len(obj0.items))

\* (C4) A pointer to a slice of length L, fetched from R rows: the slice ends
\* with length max(L, R), element i holds row i for i < R, the elements from R
\* on keep their values and the count returned is R.
C4_SliceGrows ==
    (Done /\ IsPtrSlice(obj0) /\ CleanInputs) =>
        /\ err = Ok
        /\ Len(obj.items) = Max(Len(obj0.items), Len(rows))
        /\ \A i \in 1..Len(obj.items) :
             IF i <= Len(rows) THEN HoldsRow(obj.items[i], i)
             ELSE obj.items[i] = obj0.items[i]
        /\ cnt = Len(rows)

\* the row the fetch stopped at: the last event's row
LastRow == events[Len(events)][2]

\* (C5) A fetch aborted by a scan error on row k+1, or by the hook's error,
\* returns the error with the count k of the rows populated before it (the
\* row whose hook failed may or may not be counted).
C5_ErrorKeepsCount ==
    /\ (Done /\ err = ErrScan) => cnt = LastRow - 1
    /\ (Done /\ err = ErrAfterFetch) => cnt \in {LastRow - 1, LastRow}

\* the value handed to afterFetch: the struct itself for a pointer to a
\* record, the element as stored for a container
HookedKind(o) == IF IsPtrRecord(o) THEN "Struct" ELSE o.ek

\* every populated row is followed at once by its hook
HookAfterEveryScan ==
    \A p \in 1..Len(events) :
        events[p][1] = "scan" =>
            /\ p < Len(events)
            /\ events[p + 1] = <<"hook", events[p][2]>>
\* no populated row is followed by a hook
NoHookRuns == \A p \in 1..Len(events) : events[p][1] # "hook"
\* a hook runs only right after the scan of its row, and once per row
HookOnlyAfterScan ==
    /\ \A p \in 1..Len(events) :
         events[p][1] = "hook" => (p > 1 /\ events[p - 1] = <<"scan", events[p][2]>>)
    /\ \A p, q \in 1..Len(events) :
         (events[p][1] = "hook" /\ events[p] = events[q]) => p = q

\* (C6) as claimed: for a record type with an AfterFetch method, whatever the
\* valid receiver shape, the hook runs once for every populated row, after
\* the row's scan and before the next row is read, and for no other row.
C6_HookEveryShape ==
    (Done /\ ValidShape(obj0) /\ hook # "none") =>
        (HookAfterEveryScan /\ HookOnlyAfterScan)

\* (C6) as amended: the hook runs once for every populated row, after the
\* row's scan and before the next row is read, when the method has a value
\* receiver or the receiver is a container of pointers to records; a
\* pointer-receiver method is not run for a pointer to a record nor for a
\* container of record values. It runs for no row that was not populated.
C6_HookWhenImplemented ==
    (Done /\ ValidShape(obj0)) =>
        /\ HookOnlyAfterScan
        /\ IF hook = "value" \/ (hook = "pointer" /\ HookedKind(obj0) = "Ptr")
           THEN HookAfterEveryScan
           ELSE NoHookRuns

\* two rows populated into a slice of pointers, each followed by its hook
C6_Witness ==
    /\ Done /\ IsPtrSlice(obj0) /\ obj0.ek = "Ptr" /\ hook = "pointer"
    /\ err = Ok
    /\ events = << <<"next", 1>>, <<"scan", 1>>, <<"hook", 1>>,
                   <<"next", 2>>, <<"scan", 2>>, <<"hook", 2>> >>

\* (C7) A receiver that is no pointer to a record, pointer to a slice,
\* pointer to an array or slice of records fails with ErrInvalidKind and the
\* count 0, reads no row and is left as it was.
C7_InvalidKind ==
    (Done /\ ~ValidShape(obj0)) =>
        /\ err = ErrInvalidKind
        /\ cnt = 0
        /\ events = <<>>
        /\ obj = obj0

\* an array of records handed over by value, with rows waiting
C7_Witness ==
    /\ Done /\ ~obj0.ptr /\ obj0.kind = "Array" /\ obj0.ek = "Struct"
    /\ Len(obj0.items) > 0 /\ Len(rows) > 0
    /\ err = ErrInvalidKind

\* (C8) An empty result set: no error, the receiver as it was (length,
\* elements, fields), no hook run, for every valid receiver shape.
C8_EmptyLeavesReceiver ==
    (Done /\ ValidShape(obj0) /\ ParseOk(rtype) /\ NoNilElem(obj0) /\ rows = <<>>) =>
        /\ err = Ok
        /\ obj = obj0
        /\ NoHookRuns

\* a field getName gives no column name: tagged "-", or unexported and
\* without a name(...) tag
SkippedField(f) == f.ignore \/ (~f.exported /\ f.name = "")
FieldAt(T, p) == IF p[2] = 0 THEN T[p[1]] ELSE T[p[1]].sub[p[2]]
SkippedPaths(T) == {p \in Paths(T) : SkippedField(FieldAt(T, p))}
SkippedNames(T) == {FieldAt(T, p).go : p \in SkippedPaths(T)}
Targets(items) == {items[n] : n \in DOMAIN items}
\* the value field p of element k had before the call: a record appended by
\* the call starts zero
Before(k, p) == IF k <= Len(obj0.items) THEN obj0.items[k].v[p] ELSE 0

MaxVal == 1     \* field values are 0..MaxVal; 0 is the zero value
MaxObjs == 2    \* most records handed to one call

\* ------------------------------------------------------------------ models
ColNames == {"id", "email"}
Vals == 0..MaxVal

\* A compiled model: the primary key, the unique indexes by name, the AI
\* column ("" for none), the columns with a default, and the columns whose
\* GoName does not resolve to a field of the record (FieldByName invalid).
Model(pk, uniq, ai, def, nofield) ==
    [PK |-> pk, UniqueIndexes |-> uniq, AI |-> ai, HasDefault |-> def,
     NoField |-> nofield]

NoIndexes == [n \in {} |-> <<>>]

Models ==
    { Model(<<"id">>, NoIndexes, "id", {}, {}),
      Model(<<"id">>, "u1" :> <<"email">>, "id", {"email"}, {}),
      Model(<<"id", "email">>, "u1" :> <<"id">>, "", {}, {}),
      Model(<<"id", "email">>, NoIndexes, "", {"email"}, {}),
      Model(<<>>, ("u1" :> <<"id">>) @@ ("u2" :> <<"email">>), "", {"email"}, {}),
      Model(<<>>, "u1" :> <<"id", "email">>, "", {}, {}),
      Model(<<>>, NoIndexes, "", {}, {}),
      Model(<<"id">>, "u1" :> <<"email">>, "id", {}, {"email"}) }

Records == [ColNames -> Vals]

\* every order a range over a map with these keys can take
Orders(S) == {o \in [1..Cardinality(S) -> S] : \A i, j \in 1..Cardinality(S) : o[i] = o[j] => i = j}

\* field := rval.FieldByName(col.GoName); field.IsValid()
IsValid(mod, col) == col \notin mod.NoField
\* col.Zero == field.Interface()
IsZero(r, col) == r[col] = 0
\* col.IsAI()
IsAI(mod, col) == mod.AI = col

ErrNoWhereKey == "ErrNoWhereKey"
ErrNoField == "ErrNoField"

\* ------------------------------------------------------------ sqlbuilder.go
\* getKVLoop without the reset of keys / vals when a column is missing or zero
RECURSIVE getKVLoopNoReset(_, _, _, _, _)
getKVLoopNoReset(mod, r, cs, i, acc) ==
    IF i > Len(cs) THEN [ok |-> TRUE, keys |-> acc.keys, vals |-> acc.vals]
    ELSE IF ~IsValid(mod, cs[i]) \/ IsZero(r, cs[i])
    THEN [ok |-> FALSE, keys |-> acc.keys, vals |-> acc.vals]
    ELSE getKVLoopNoReset(mod, r, cs, i + 1,
                   [keys |-> Append(acc.keys, cs[i]), vals |-> Append(acc.vals, r[cs[i]])])

\* getKV of where: appends the columns of one key to keys / vals; a column
\* that is missing or zero empties both and gives up on the key.
RECURSIVE getKVLoop(_, _, _, _, _)
getKVLoop(mod, r, cs, i, acc) ==
    IF i > Len(cs) THEN [ok |-> TRUE, keys |-> acc.keys, vals |-> acc.vals]
    ELSE IF ~IsValid(mod, cs[i]) \/ IsZero(r, cs[i])
    THEN [ok |-> FALSE, keys |-> <<>>, vals |-> <<>>]
    ELSE getKVLoop(mod, r, cs, i + 1,
                   [keys |-> Append(acc.keys, cs[i]), vals |-> Append(acc.vals, r[cs[i]])])

getKV(mod, r, cs, acc) ==
    IF Len(cs) = 0 THEN [ok |-> FALSE, keys |-> acc.keys, vals |-> acc.vals]
    ELSE getKVLoop(mod, r, cs, 1, acc)

\* for _, cols := range m.UniqueIndexes { if getKV(cols) { break } }
RECURSIVE uniqueLoop(_, _, _, _, _)
uniqueLoop(mod, r, uorder, i, acc) ==
    IF i > Len(uorder) THEN acc
    ELSE LET g == getKV(mod, r, mod.UniqueIndexes[uorder[i]], acc)
         IN IF g.ok THEN g ELSE uniqueLoop(mod, r, uorder, i + 1, g)

\* where(sql, m, rval): the conditions And()-ed onto the statement, in order.
\* uorder is the order the range over m.UniqueIndexes takes.
where(mod, r, uorder) ==
    LET none == [ok |-> FALSE, keys |-> <<>>, vals |-> <<>>]
        pk == getKV(mod, r, mod.PK, none)
        kv == IF pk.ok THEN pk ELSE uniqueLoop(mod, r, uorder, 1, pk)
    IN IF Len(kv.keys) = 0
       THEN [err |-> ErrNoWhereKey, keys |-> <<>>, vals |-> <<>>]
       ELSE [err |-> Ok, keys |-> kv.keys, vals |-> kv.vals]

\* A statement: its kind, the columns and values of its column list / SET
\* list, the value tuples of the further records of a batch, the columns and
\* arguments of its WHERE conditions and (impl.go) the text of its WHERE.
Stmt(kind, keys, vals, tuples, wkeys, wvals, wtext) ==
    [kind |-> kind, keys |-> keys, vals |-> vals, tuples |-> tuples,
     wkeys |-> wkeys, wvals |-> wvals, wtext |-> wtext]
NoStmt == Stmt("", <<>>, <<>>, <<>>, <<>>, <<>>, <<>>)

\* insertCols leaving out a zero AI column only, not a zero defaulted column
RECURSIVE insertColsAIOnly(_, _, _, _, _)
insertColsAIOnly(mod, r, order, i, acc) ==
    IF i > Len(order) THEN [err |-> Ok, keys |-> acc.keys, vals |-> acc.vals]
    ELSE IF ~IsValid(mod, order[i])
    THEN [err |-> ErrNoField, keys |-> acc.keys, vals |-> acc.vals]
    ELSE IF IsZero(r, order[i]) /\ IsAI(mod, order[i])
    THEN insertColsAIOnly(mod, r, order, i + 1, acc)
    ELSE insertColsAIOnly(mod, r, order, i + 1,
                    [keys |-> Append(acc.keys, order[i]),
                     vals |-> Append(acc.vals, r[order[i]])])

\* the column loop of insert and of the first record of a batch:
\* zero and (AI or defaulted) is left out
RECURSIVE insertCols(_, _, _, _, _)
insertCols(mod, r, order, i, acc) ==
    IF i > Len(order) THEN [err |-> Ok, keys |-> acc.keys, vals |-> acc.vals]
    ELSE IF ~IsValid(mod, order[i])
    THEN [err |-> ErrNoField, keys |-> acc.keys, vals |-> acc.vals]
    ELSE IF IsZero(r, order[i]) /\ (IsAI(mod, order[i]) \/ order[i] \in mod.HasDefault)
    THEN insertCols(mod, r, order, i + 1, acc)
    ELSE insertCols(mod, r, order, i + 1,
                    [keys |-> Append(acc.keys, order[i]),
                     vals |-> Append(acc.vals, r[order[i]])])

\* inStrSlice(name, cols)
inStrSlice(key, slice) == \E i \in 1..Len(slice) : slice[i] = key

\* updateCols leaving out every zero column, listed or not
RECURSIVE updateColsNoList(_, _, _, _, _, _)
updateColsNoList(mod, r, order, list, i, acc) ==
    IF i > Len(order) THEN [err |-> Ok, keys |-> acc.keys, vals |-> acc.vals]
    ELSE IF ~IsValid(mod, order[i])
    THEN [err |-> ErrNoField, keys |-> acc.keys, vals |-> acc.vals]
    ELSE IF IsZero(r, order[i])
    THEN updateColsNoList(mod, r, order, list, i + 1, acc)
    ELSE updateColsNoList(mod, r, order, list, i + 1,
                    [keys |-> Append(acc.keys, order[i]),
                     vals |-> Append(acc.vals, r[order[i]])])

\* the column loop of update: zero and not listed in cols is left out
RECURSIVE updateCols(_, _, _, _, _, _)
updateCols(mod, r, order, list, i, acc) ==
    IF i > Len(order) THEN [err |-> Ok, keys |-> acc.keys, vals |-> acc.vals]
    ELSE IF ~IsValid(mod, order[i])
    THEN [err |-> ErrNoField, keys |-> acc.keys, vals |-> acc.vals]
    ELSE IF ~inStrSlice(order[i], list) /\ IsZero(r, order[i])
    THEN updateCols(mod, r, order, list, i + 1, acc)
    ELSE updateCols(mod, r, order, list, i + 1,
                    [keys |-> Append(acc.keys, order[i]),
                     vals |-> Append(acc.vals, r[order[i]])])

NoCols == [keys |-> <<>>, vals |-> <<>>]

\* What a call leaves behind: the statements handed to the engine (Exec /
\* Query), the statement built, and the error returned.
Out(stmts, stmt, e) == [sent |-> stmts, built |-> stmt, err |-> e]

ErrNoColumns == "ErrNoColumns"

\* sql.Exec() of the statement builder: an INSERT or UPDATE without columns
\* is refused with the no-columns error before it reaches the engine
Exec(st) ==
    IF st.kind \in {"INSERT", "UPDATE"} /\ Len(st.keys) = 0
    THEN Out(<<>>, st, ErrNoColumns)
    ELSE Out(<<st>>, st, Ok)

\* insert(e, v)
insert(mod, r, order) ==
    LET c == insertCols(mod, r, order, 1, NoCols)
    IN IF c.err # Ok THEN Out(<<>>, NoStmt, c.err)
       ELSE Exec(Stmt("INSERT", c.keys, c.vals, <<>>, <<>>, <<>>, <<>>))

\* find / forUpdate / del: a statement of the kind, the keyed WHERE, then
\* QueryObj / Exec
keyed(kind, mod, r, uorder) ==
    LET w == where(mod, r, uorder)
        st == Stmt(kind, <<>>, <<>>, <<>>, w.keys, w.vals, <<>>)
    IN IF w.err # Ok THEN Out(<<>>, st, w.err)
       ELSE Out(<<st>>, st, Ok)

find(mod, r, uorder) == keyed("SELECT", mod, r, uorder)
forUpdate(mod, r, uorder) == keyed("SELECT FOR UPDATE", mod, r, uorder)
del(mod, r, uorder) == keyed("DELETE", mod, r, uorder)

\* update executing the statement whatever where returned
updateDespiteWhere(mod, r, order, uorder, list) ==
    LET c == updateCols(mod, r, order, list, 1, NoCols)
        w == where(mod, r, uorder)
        st == Stmt("UPDATE", c.keys, c.vals, <<>>, w.keys, w.vals, <<>>)
    IN IF c.err # Ok THEN Out(<<>>, NoStmt, c.err)
       ELSE Exec(st)

\* update(e, v, cols...)
update(mod, r, order, uorder, list) ==
    LET c == updateCols(mod, r, order, list, 1, NoCols)
        w == where(mod, r, uorder)
        st == Stmt("UPDATE", c.keys, c.vals, <<>>, w.keys, w.vals, <<>>)
    IN IF c.err # Ok THEN Out(<<>>, NoStmt, c.err)
       ELSE IF w.err # Ok THEN Out(<<>>, st, w.err)
       ELSE Exec(st)

\* the values a further record of a batch contributes for the columns keys:
\* again zero and (AI or defaulted) is left out
RECURSIVE manyVals(_, _, _, _, _)
manyVals(mod, r, keys, i, vals) ==
    IF i > Len(keys) THEN [err |-> Ok, vals |-> vals]
    ELSE IF ~IsValid(mod, keys[i]) THEN [err |-> ErrNoField, vals |-> vals]
    ELSE IF IsZero(r, keys[i]) /\ (IsAI(mod, keys[i]) \/ keys[i] \in mod.HasDefault)
    THEN manyVals(mod, r, keys, i + 1, vals)
    ELSE manyVals(mod, r, keys, i + 1, Append(vals, r[keys[i]]))

\* the records after the first: sql.Values(vals...) for each
RECURSIVE manyLoop(_, _, _, _, _)
manyLoop(mod, rs, keys, i, tuples) ==
    IF i > Len(rs) THEN [err |-> Ok, tuples |-> tuples]
    ELSE LET v == manyVals(mod, rs[i], keys, 1, <<>>)
         IN IF v.err # Ok THEN [err |-> v.err, tuples |-> tuples]
            ELSE manyLoop(mod, rs, keys, i + 1, Append(tuples, v.vals))

\* buildInsertManySQL(e, rval): the statement is returned, not executed
buildInsertManySQL(mod, rs, order) ==
    IF Len(rs) = 0 THEN Out(<<>>, Stmt("INSERT", <<>>, <<>>, <<>>, <<>>, <<>>, <<>>), Ok)
    ELSE LET c == insertCols(mod, rs[1], order, 1, NoCols)
             t == manyLoop(mod, rs, c.keys, 2, <<>>)
         IN IF c.err # Ok THEN Out(<<>>, NoStmt, c.err)
            ELSE IF t.err # Ok THEN Out(<<>>, NoStmt, t.err)
            ELSE Out(<<>>, Stmt("INSERT", c.keys, c.vals, t.tuples, <<>>, <<>>, <<>>), Ok)

\* ------------------------------------------------------------------ impl.go
\* checkCols(cols, rval)
checkCols(mod, r, cs) ==
    /\ Len(cs) # 0
    /\ \A i \in 1..Len(cs) : IsValid(mod, cs[i]) /\ ~IsZero(r, cs[i])

RECURSIVE Flatten(_)
Flatten(ss) == IF Len(ss) = 0 THEN <<>> ELSE Head(ss) \o Flatten(Tail(ss))

\* the text where() writes for the primary key: Quote(col) "=?" per column
pkText(cs) == <<" WHERE ">> \o Flatten([i \in 1..Len(cs) |-> <<cs[i], "=?">>])
\* ... and for a unique index: Quote(col) "=?" " AND " per column, the last
\* " AND " truncated
uniqueText(cs) ==
    LET t == <<" WHERE ">> \o Flatten([i \in 1..Len(cs) |-> <<cs[i], "=?", " AND ">>])
    IN SubSeq(t, 1, Len(t) - 1)

KeyVals(r, cs) == [i \in 1..Len(cs) |-> r[cs[i]]]

\* the first unique index, in the order of the range, that checkCols accepts
RECURSIVE firstUnique(_, _, _, _)
firstUnique(mod, r, uorder, i) ==
    IF i > Len(uorder) THEN ""
    ELSE IF checkCols(mod, r, mod.UniqueIndexes[uorder[i]]) THEN uorder[i]
    ELSE firstUnique(mod, r, uorder, i + 1)

\* where(e, sql, m, rval) of impl.go
implWhere(mod, r, uorder) ==
    LET u == firstUnique(mod, r, uorder, 1)
    IN IF checkCols(mod, r, mod.PK)
       THEN [err |-> Ok, keys |-> mod.PK, vals |-> KeyVals(r, mod.PK),
             text |-> pkText(mod.PK)]
       ELSE IF u # ""
       THEN [err |-> Ok, keys |-> mod.UniqueIndexes[u],
             vals |-> KeyVals(r, mod.UniqueIndexes[u]),
             text |-> uniqueText(mod.UniqueIndexes[u])]
       ELSE [err |-> ErrNoWhereKey, keys |-> <<>>, vals |-> <<>>, text |-> <<>>]

\* the column loop of updateMult: every zero value is left out
RECURSIVE updateMultCols(_, _, _, _, _)
updateMultCols(mod, r, order, i, acc) ==
    IF i > Len(order) THEN [err |-> Ok, keys |-> acc.keys, vals |-> acc.vals]
    ELSE IF ~IsValid(mod, order[i])
    THEN [err |-> ErrNoField, keys |-> acc.keys, vals |-> acc.vals]
    ELSE IF IsZero(r, order[i])
    THEN updateMultCols(mod, r, order, i + 1, acc)
    ELSE updateMultCols(mod, r, order, i + 1,
                        [keys |-> Append(acc.keys, order[i]),
                         vals |-> Append(acc.vals, r[order[i]])])

\* insertMultBody without the len(keys) == 0 test
insertMultBodyNoTest(mod, r, order) ==
    LET c == insertCols(mod, r, order, 1, NoCols)
    IN IF c.err # Ok THEN [err |-> c.err, stmt |-> NoStmt]
       ELSE [err |-> Ok, stmt |-> Stmt("INSERT", c.keys, c.vals, <<>>, <<>>, <<>>, <<>>)]

\* the body of insertMult's loop for one record: the statement executed or
\* the error returned
insertMultBody(mod, r, order) ==
    LET c == insertCols(mod, r, order, 1, NoCols)
    IN IF c.err # Ok THEN [err |-> c.err, stmt |-> NoStmt]
       ELSE IF Len(c.keys) = 0 THEN [err |-> ErrNoColumns, stmt |-> NoStmt]
       ELSE [err |-> Ok, stmt |-> Stmt("INSERT", c.keys, c.vals, <<>>, <<>>, <<>>, <<>>)]

\* the body of updateMult's loop
updateMultBody(mod, r, order, uorder) ==
    LET c == updateMultCols(mod, r, order, 1, NoCols)
        w == implWhere(mod, r, uorder)
    IN IF c.err # Ok THEN [err |-> c.err, stmt |-> NoStmt]
       ELSE IF w.err # Ok THEN [err |-> w.err, stmt |-> NoStmt]
       ELSE [err |-> Ok,
             stmt |-> Stmt("UPDATE", c.keys, c.vals, <<>>, w.keys, w.vals, w.text)]

\* the body of findMult's ("SELECT") and of deleteMult's ("DELETE") loop
keyedMultBody(kind, mod, r, uorder) ==
    LET w == implWhere(mod, r, uorder)
    IN IF w.err # Ok THEN [err |-> w.err, stmt |-> NoStmt]
       ELSE [err |-> Ok, stmt |-> Stmt(kind, <<>>, <<>>, <<>>, w.keys, w.vals, w.text)]

oneMult(kind, mod, r, order, uorder) ==
    CASE kind = "INSERT" -> insertMultBody(mod, r, order)
      [] kind = "UPDATE" -> updateMultBody(mod, r, order, uorder)
      [] OTHER -> keyedMultBody(kind, mod, r, uorder)

\* for _, v := range objs { ...; e.Exec / e.Query }: stops at the first error
RECURSIVE multLoop(_, _, _, _, _, _, _)
multLoop(kind, mod, rs, orders, uorders, i, stmts) ==
    IF i > Len(rs)
    THEN Out(stmts, IF Len(stmts) = 0 THEN NoStmt ELSE stmts[Len(stmts)], Ok)
    ELSE LET o == oneMult(kind, mod, rs[i], orders[i], uorders[i])
         IN IF o.err # Ok THEN Out(stmts, NoStmt, o.err)
            ELSE multLoop(kind, mod, rs, orders, uorders, i + 1, Append(stmts, o.stmt))

insertMult(mod, rs, orders, uorders) == multLoop("INSERT", mod, rs, orders, uorders, 1, <<>>)
findMult(mod, rs, orders, uorders) == multLoop("SELECT", mod, rs, orders, uorders, 1, <<>>)
updateMult(mod, rs, orders, uorders) == multLoop("UPDATE", mod, rs, orders, uorders, 1, <<>>)
deleteMult(mod, rs, orders, uorders) == multLoop("DELETE", mod, rs, orders, uorders, 1, <<>>)

\* ----------------------------------------------------------- CRUD: machine
\* no fetch is under way
NoFetch ==
    /\ rtype = <<>>
    /\ hook = "none"
    /\ cols = <<>>
    /\ rows = <<>>
    /\ obj0 = Recv(FALSE, "Invalid", "None", <<>>)
    /\ obj = obj0
    /\ cnt = 0
    /\ err = Ok
    /\ events = <<>>
    /\ parsed = NoParsed

InitCrud ==
    /\ pc = "call"
    /\ NoFetch
    /\ NoCreate /\ NoRegistry /\ NoCompile
    /\ m \in Models
    /\ objs \in SeqsUpTo(Records, MaxObjs)
    /\ op = ""
    /\ allow = <<>>
    /\ sent = <<>>
    /\ built = NoStmt
    /\ cerr = Ok

UOrders == Orders(DOMAIN m.UniqueIndexes)
AllowLists == {<<>>} \cup {<<c>> : c \in ColNames} \cup Orders(ColNames)

Return(name, out) ==
    /\ op' = name
    /\ sent' = out.sent
    /\ built' = out.built
    /\ cerr' = out.err
    /\ pc' = "done"
    /\ UNCHANGED <<m, objs>>
    /\ UNCHANGED <<fvars, xvars>>

\* calls on one record
Insert ==
    /\ pc = "call" /\ Len(objs) = 1
    /\ \E order \in Orders(ColNames) : Return("insert", insert(m, objs[1], order))
    /\ UNCHANGED allow

Find ==
    /\ pc = "call" /\ Len(objs) = 1
    /\ \E uorder \in UOrders : Return("find", find(m, objs[1], uorder))
    /\ UNCHANGED allow

ForUpdate ==
    /\ pc = "call" /\ Len(objs) = 1
    /\ \E uorder \in UOrders : Return("forUpdate", forUpdate(m, objs[1], uorder))
    /\ UNCHANGED allow

Del ==
    /\ pc = "call" /\ Len(objs) = 1
    /\ \E uorder \in UOrders : Return("del", del(m, objs[1], uorder))
    /\ UNCHANGED allow

Update ==
    /\ pc = "call" /\ Len(objs) = 1
    /\ \E order \in Orders(ColNames), uorder \in UOrders, cs \in AllowLists :
         /\ Return("update", update(m, objs[1], order, uorder, cs))
         /\ allow' = cs

\* calls on a slice of records
BuildInsertManySQL ==
    /\ pc = "call"
    /\ \E order \in Orders(ColNames) :
         Return("buildInsertManySQL", buildInsertManySQL(m, objs, order))
    /\ UNCHANGED allow

OrdersPer == [1..Len(objs) -> Orders(ColNames)]
UOrdersPer == [1..Len(objs) -> UOrders]

InsertMult ==
    /\ pc = "call"
    /\ \E orders \in OrdersPer, uorders \in UOrdersPer :
         Return("insertMult", insertMult(m, objs, orders, uorders))
    /\ UNCHANGED allow

FindMult ==
    /\ pc = "call"
    /\ \E orders \in OrdersPer, uorders \in UOrdersPer :
         Return("findMult", findMult(m, objs, orders, uorders))
    /\ UNCHANGED allow

UpdateMult ==
    /\ pc = "call"
    /\ \E orders \in OrdersPer, uorders \in UOrdersPer :
         Return("updateMult", updateMult(m, objs, orders, uorders))
    /\ UNCHANGED allow

DeleteMult ==
    /\ pc = "call"
    /\ \E orders \in OrdersPer, uorders \in UOrdersPer :
         Return("deleteMult", deleteMult(m, objs, orders, uorders))
    /\ UNCHANGED allow

NextCrud ==
    \/ Insert \/ Find \/ ForUpdate \/ Del \/ Update
    \/ BuildInsertManySQL
    \/ InsertMult \/ FindMult \/ UpdateMult \/ DeleteMult

SpecCrud == InitCrud /\ [][NextCrud]_vars

\* ------------------------------------------------------------ CRUD: claims
SetOf(sq) == {sq[i] : i \in 1..Len(sq)}
NoRepeat(sq) == \A i, j \in 1..Len(sq) : sq[i] = sq[j] => i = j
\* vals are the record's values of keys, position by position
Aligned(r, keys, vals) ==
    /\ Len(vals) = Len(keys)
    /\ \A i \in 1..Len(keys) : vals[i] = r[keys[i]]

\* a key qualifies: it has columns, and each is a field of the record with a
\* non-zero value
Qualifies(r, cs) ==
    /\ Len(cs) > 0
    /\ \A i \in 1..Len(cs) : cs[i] \notin m.NoField /\ r[cs[i]] # 0
AnyUniqueQualifies(r) ==
    \E u \in DOMAIN m.UniqueIndexes : Qualifies(r, m.UniqueIndexes[u])

\* the keyed WHERE of record r came out as wkeys / wvals, or as the error e
KeyedWhereRight(r, wkeys, wvals, e) ==
    /\ e \in {Ok, ErrNoWhereKey}
    /\ e = ErrNoWhereKey <=> (~Qualifies(r, m.PK) /\ ~AnyUniqueQualifies(r))
    /\ Qualifies(r, m.PK) => wkeys = m.PK
    /\ (e = Ok /\ ~Qualifies(r, m.PK)) =>
          \E u \in DOMAIN m.UniqueIndexes :
              Qualifies(r, m.UniqueIndexes[u]) /\ wkeys = m.UniqueIndexes[u]
    /\ e = Ok => Aligned(r, wkeys, wvals)

\* (C1) The keyed WHERE of find / update / delete / select-for-update is the
\* primary key when every PK column is present and non-zero, else a unique
\* index all of whose columns are present and non-zero, and the no-where-key
\* error exactly when neither qualifies; the conditions are the columns of
\* that one key and nothing else.
C1_KeyedWhere ==
    /\ (Done /\ op \in {"find", "forUpdate", "del", "update"} /\ cerr # ErrNoField) =>
          KeyedWhereRight(objs[1], built.wkeys, built.wvals, cerr)
    /\ (Done /\ op \in {"findMult", "updateMult", "deleteMult"}) =>
          /\ \A i \in 1..Len(sent) :
                KeyedWhereRight(objs[i], sent[i].wkeys, sent[i].wvals, Ok)
          /\ cerr = Ok => Len(sent) = Len(objs)
          /\ cerr = ErrNoWhereKey =>
                KeyedWhereRight(objs[Len(sent) + 1], <<>>, <<>>, cerr)

\* a composite primary key with one zero column is passed over for a unique
\* index on the other column
C1_Witness ==
    /\ Done /\ op = "update" /\ cerr = Ok
    /\ m.PK = <<"id", "email">>
    /\ objs[1]["id"] # 0 /\ objs[1]["email"] = 0
    /\ built.wkeys = <<"id">>

\* (C2) In a batch INSERT every record after the first contributes a tuple
\* of exactly |K| values, in the order of the column list K the first record
\* fixed; a zero on an AI or defaulted column of K still takes its position.
C2_TuplesMatchColumns ==
    (Done /\ op = "buildInsertManySQL" /\ cerr = Ok) =>
        \A i \in 1..Len(built.tuples) :
            /\ Len(built.tuples[i]) = Len(built.keys)
            /\ \A j \in 1..Len(built.keys) :
                 objs[i + 1][built.keys[j]] # 0 =>
                     built.tuples[i][j] = objs[i + 1][built.keys[j]]

\* the columns an INSERT of r names
InsertSet(r) ==
    {c \in ColNames : r[c] # 0 \/ (c # m.AI /\ c \notin m.HasDefault)}

InsertRight(r, st) ==
    /\ SetOf(st.keys) = InsertSet(r)
    /\ NoRepeat(st.keys)
    /\ Aligned(r, st.keys, st.vals)

\* (C9) A single INSERT names column c exactly when the record's value for c
\* is non-zero or c is neither the AI column nor a column with a default.
C9_InsertColumns ==
    /\ (Done /\ op = "insert" /\ cerr = Ok) => InsertRight(objs[1], built)
    /\ (Done /\ op = "insertMult") =>
          \A i \in 1..Len(sent) : InsertRight(objs[i], sent[i])

\* a zero AI column is left out while a zero column without default is named
C9_Witness ==
    /\ Done /\ op = "insert" /\ cerr = Ok
    /\ m.AI = "id" /\ "email" \notin m.HasDefault
    /\ objs[1]["id"] = 0 /\ objs[1]["email"] = 0
    /\ built.keys = <<"email">>

UpdateRight(r, st, list) ==
    /\ SetOf(st.keys) = {c \in ColNames : r[c] # 0 \/ c \in SetOf(list)}
    /\ NoRepeat(st.keys)
    /\ Aligned(r, st.keys, st.vals)

\* (C10) UPDATE's SET list holds column c exactly when the record's value
\* for c is non-zero or c is in the caller's cols; a listed column is set to
\* its value even when zero.
C10_UpdateColumns ==
    /\ (Done /\ op = "update" /\ cerr # ErrNoField) => UpdateRight(objs[1], built, allow)
    /\ (Done /\ op = "updateMult") =>
          \A i \in 1..Len(sent) : UpdateRight(objs[i], sent[i], <<>>)

\* a listed zero column is set to zero, an unlisted zero column is not set
C10_Witness ==
    /\ Done /\ op = "update" /\ cerr = Ok
    /\ allow = <<"email">>
    /\ objs[1]["email"] = 0 /\ objs[1]["id"] # 0
    /\ SetOf(built.keys) = {"id", "email"}
    /\ Aligned(objs[1], built.keys, built.vals)

\* a record none of whose columns UPDATE would set: all zero, none listed
NoUpdateCols(r, list) == \A c \in ColNames : IsZero(r, c) /\ ~inStrSlice(c, list)
\* a record none of whose columns INSERT would name: all zero and AI or defaulted
NoInsertCols(mod, r) ==
    \A c \in ColNames : IsZero(r, c) /\ (IsAI(mod, c) \/ c \in mod.HasDefault)
\* the call was made on a record whose fields all resolve
CalledOnFirst(names) == Done /\ op \in names /\ Len(objs) >= 1 /\ m.NoField = {}

\* (C11) as claimed: an UPDATE that would update no column, and an INSERT
\* that would name no column, fail with the no-columns error and hand no
\* statement to the engine.
C11_NoColumnsError ==
    /\ (CalledOnFirst({"update", "updateMult"}) /\ NoUpdateCols(objs[1], allow))
          => (cerr = ErrNoColumns /\ sent = <<>>)
    /\ (CalledOnFirst({"insert", "insertMult"}) /\ NoInsertCols(m, objs[1]))
          => (cerr = ErrNoColumns /\ sent = <<>>)

\* (C11) An UPDATE that would update no column fails and hands no statement
\* to the engine, but with the error of the keyed WHERE: a record whose
\* columns are all zero has no key that qualifies, and the WHERE is built
\* before the statement is executed. An INSERT that would name no column
\* fails with the no-columns error and hands no statement to the engine.
C11_NoColumnsFails ==
    /\ (CalledOnFirst({"update", "updateMult"}) /\ NoUpdateCols(objs[1], allow))
          => (cerr = ErrNoWhereKey /\ sent = <<>>)
    /\ (CalledOnFirst({"insert", "insertMult"}) /\ NoInsertCols(m, objs[1]))
          => (cerr = ErrNoColumns /\ sent = <<>>)
    /\ Done => \A i \in 1..Len(sent) :
                  sent[i].kind \in {"INSERT", "UPDATE"} => Len(sent[i].keys) > 0

C11_Witness ==
    /\ CalledOnFirst({"update"}) /\ NoUpdateCols(objs[1], allow)
    /\ Len(m.PK) > 0
    /\ cerr = ErrNoWhereKey /\ sent = <<>>

\* ------------------------------------------------------------ CREATE TABLE
KeyNames == {"k" \o ToString(i) : i \in 1..MaxIdx}

\* a statement handed to e.Exec: its kind, the number of the model it is
\* for, the name of the index it creates ("" for the table itself)
DDL(kind, t, name) == [kind |-> kind, table |-> t, name |-> name]

ErrCreateTableSQL == "ErrCreateTableSQL"
\* the error the engine returns from its n-th Exec call
ErrExec(n) == "ErrExec" \o ToString(n)

\* e.Exec(sql.String()): the statement reaches the engine, which fails it
\* or not; log holds the statements handed over before
execDDL(eng, log, st) ==
    [ddl |-> Append(log, st),
     err |-> IF eng.failAt = Len(log) + 1 THEN ErrExec(Len(log) + 1) ELSE Ok]

RECURSIVE indexLoop(_, _, _, _, _)
RECURSIVE indexNext(_, _, _, _, _)

\* indexNext going on to the next index whatever Exec returned
indexNextNoStop(t, order, i, eng, r) == indexLoop(t, order, i + 1, eng, r.ddl)

\* the loop after the CREATE INDEX of iteration i, which left r behind
indexNext(t, order, i, eng, r) ==
    IF r.err # Ok THEN r ELSE indexLoop(t, order, i + 1, eng, r.ddl)

\* for name, cols := range m.KeyIndexes { ...; e.Exec(sql.String()) }
indexLoop(t, order, i, eng, log) ==
    IF i > Len(order) THEN [ddl |-> log, err |-> Ok]
    ELSE indexNext(t, order, i, eng,
                   execDDL(eng, log, DDL("CREATE INDEX", t, order[i])))

\* create from the Exec of the CREATE TABLE statement on: r is its result
createIndexes(t, order, eng, r) ==
    IF r.err # Ok THEN r ELSE indexLoop(t, order, 1, eng, r.ddl)

\* create(e, v): order is the order the range over m.KeyIndexes takes
create(t, order, eng) ==
    IF eng.sqlErr THEN [ddl |-> <<>>, err |-> ErrCreateTableSQL]
    ELSE createIndexes(t, order, eng, execDDL(eng, <<>>, DDL("CREATE TABLE", t, "")))

RECURSIVE createMultLoop(_, _, _, _)
RECURSIVE createMultNext(_, _, _, _)

createMultNext(ts, i, eng, r) ==
    IF r.err # Ok THEN r ELSE createMultLoop(ts, i + 1, eng, r.ddl)

\* for i, v := range objs { ...; e.Exec(false, sql.String()) }
createMultLoop(ts, i, eng, log) ==
    IF i > Len(ts) THEN [ddl |-> log, err |-> Ok]
    ELSE createMultNext(ts, i, eng, execDDL(eng, log, DDL("CREATE TABLE", i, "")))

\* createMult(e, objs...)
createMult(ts, eng) == createMultLoop(ts, 1, eng, <<>>)

InitCreate ==
    /\ pc = "call"
    /\ NoFetch
    /\ NoCrud
    /\ NoRegistry /\ NoCompile
    /\ tabs \in SeqsUpTo(SUBSET KeyNames, MaxObjs)
    /\ engine \in [failAt : 0..(MaxIdx + 1), sqlErr : BOOLEAN]
    /\ ddl = <<>>
    /\ derr = Ok

ReturnDDL(name, out) ==
    /\ ddl' = out.ddl
    /\ derr' = out.err
    /\ pc' = "done"
    /\ UNCHANGED <<tabs, engine>>
    /\ UNCHANGED <<fvars, m, objs, allow, sent, built, cerr, rvars, mvars>>
    /\ op' = name

Create ==
    /\ pc = "call" /\ Len(tabs) = 1
    /\ \E order \in Orders(tabs[1]) : ReturnDDL("create", create(1, order, engine))

CreateMult ==
    /\ pc = "call"
    /\ ReturnDDL("createMult", createMult(tabs, engine))

NextCreate == Create \/ CreateMult

SpecCreate == InitCreate /\ [][NextCreate]_vars

\* the statements of the call are those up to the first one the engine fails
StopsAtFailure ==
    IF engine.failAt \in 1..Len(ddl)
    THEN Len(ddl) = engine.failAt /\ derr = ErrExec(engine.failAt)
    ELSE derr = Ok
\* statement 1 creates the table, the others one key index each
TableThenIndexes ==
    /\ Len(ddl) >= 1 /\ ddl[1] = DDL("CREATE TABLE", 1, "")
    /\ \A i \in 2..Len(ddl) : ddl[i].kind = "CREATE INDEX" /\ ddl[i].name \in tabs[1]
    /\ \A i, j \in 2..Len(ddl) : ddl[i].name = ddl[j].name => i = j
    /\ derr = Ok => {ddl[i].name : i \in 2..Len(ddl)} = tabs[1]
\* one CREATE TABLE statement per model, in the order of the models
TablePerModel ==
    /\ \A i \in 1..Len(ddl) : ddl[i] = DDL("CREATE TABLE", i, "")
    /\ derr = Ok => Len(ddl) = Len(tabs)

\* (C12) as claimed: every CREATE TABLE call sends the CREATE TABLE statement
\* and then one CREATE INDEX per key index, stops at the first statement
\* that fails and returns its error.
C12_CreateThenIndexes ==
    (Done /\ op \in {"create", "createMult"} /\ Len(tabs) = 1 /\ ~engine.sqlErr)
        => (TableThenIndexes /\ StopsAtFailure)

\* (C12) create sends the CREATE TABLE statement first and then one CREATE
\* INDEX per key index; createMult sends one CREATE TABLE statement per
\* model and no CREATE INDEX. Either stops at the first statement the
\* engine fails: nothing is sent after it, its error is returned, and the
\* statements before it stay with the engine; when the dialect cannot
\* build the statement nothing is sent.
C12_CreateInSequence ==
    /\ (Done /\ op = "create")
          => IF engine.sqlErr THEN ddl = <<>> /\ derr = ErrCreateTableSQL
             ELSE TableThenIndexes /\ StopsAtFailure
    /\ (Done /\ op = "createMult") => (TablePerModel /\ StopsAtFailure)

C12_Witness ==
    /\ Done /\ op = "create" /\ ~engine.sqlErr
    /\ Cardinality(tabs[1]) = 2 /\ engine.failAt = 2
    /\ Len(ddl) = 2 /\ derr = ErrExec(2)

\* ---------------------------------------------------------- model registry
\* The record types: "t1", "t2", ... compile; "bad" does not (its tags are
\* in error).
GoodTypes == {"t" \o ToString(i) : i \in 1..MaxTypes}
RecordTypes == GoodTypes \cup {"bad"}
ErrCompile == "ErrCompile"

\* the model compiled from a type
Compiled(t) == [name |-> t]

\* models.items[key]: the keys of the entries
Keys(es) == {es[i].key : i \in 1..Len(es)}

\* NewModel adding an entry without looking the type up first
NewModelNoLookup(es, t) ==
    IF t \notin GoodTypes
    THEN [items |-> es, found |-> FALSE, err |-> ErrCompile]
    ELSE [items |-> Append(es, [key |-> t, model |-> Compiled(t)]),
          found |-> FALSE, err |-> Ok]

\* NewModel(obj): the registered model of obj's type, or else the type is
\* compiled and, when that succeeds, registered
NewModelOf(es, t) ==
    IF t \in Keys(es)
    THEN [items |-> es, found |-> TRUE, err |-> Ok]
    ELSE IF t \notin GoodTypes
    THEN [items |-> es, found |-> FALSE, err |-> ErrCompile]
    ELSE [items |-> Append(es, [key |-> t, model |-> Compiled(t)]),
          found |-> FALSE, err |-> Ok]

InitModels ==
    /\ pc = "call"
    /\ NoFetch /\ NoCrud /\ NoCreate /\ NoCompile
    /\ NoRegistry

NewModel ==
    /\ ncalls < MaxCalls
    /\ \E t \in RecordTypes :
         \E r \in {NewModelOf(models, t)} :
            /\ models' = r.items
            /\ since' = IF r.err = Ok THEN since \cup {t} ELSE since
            /\ last' = [op |-> "NewModel", type |-> t, found |-> r.found,
                       before |-> Len(models), err |-> r.err]
    /\ ncalls' = ncalls + 1
    /\ UNCHANGED <<pc, fvars, cvars, dvars, mvars>>

ClearModels ==
    /\ ncalls < MaxCalls
    /\ models' = <<>>
    /\ since' = {}
    /\ last' = [op |-> "ClearModels", type |-> "", found |-> FALSE,
               before |-> Len(models), err |-> Ok]
    /\ ncalls' = ncalls + 1
    /\ UNCHANGED <<pc, fvars, cvars, dvars, mvars>>

NextModels == NewModel \/ ClearModels

SpecModels == InitModels /\ [][NextModels]_vars

\* (C13) The registry holds exactly one entry per type NewModel compiled
\* since the last ClearModels: NewModel on a registered type adds nothing,
\* on a new type that compiles adds one entry, on a type that does not
\* compile adds nothing, and ClearModels leaves the registry empty.
C13_RegistryExact ==
    /\ Keys(models) = since
    /\ Len(models) = Cardinality(since)
    /\ (last.op = "NewModel" /\ last.found) => (last.err = Ok /\ Len(models) = last.before)
    /\ (last.op = "NewModel" /\ ~last.found /\ last.err = Ok) => Len(models) = last.before + 1
    /\ (last.op = "NewModel" /\ last.err # Ok) => Len(models) = last.before
    /\ last.op = "ClearModels" => models = <<>>

\* NewModel was called on a type already registered, in a registry of two
C13_Witness ==
    /\ last.op = "NewModel" /\ last.found /\ Len(models) = 2
    /\ ncalls = MaxCalls

\* ---------------------------------------------------------- model compiler
\* The columns of the model being compiled. A column: whether its GoType is
\* an integer type, Nullable, HasDefault.
ColIds == {"c1", "c2"}
Column(int, nullable, hasDefault) ==
    [int |-> int, Nullable |-> nullable, HasDefault |-> hasDefault]

ErrProperty == "ErrProperty"

\* what a property application leaves: the model and the error
Applied(mod, e) == [mc |-> mod, err |-> e]

\* setAI without the test for a default
setAIDespiteDefault(mod, c) ==
    IF mod.cols[c].Nullable THEN Applied(mod, ErrProperty)
    ELSE IF ~mod.cols[c].int THEN Applied(mod, ErrProperty)
    ELSE Applied([mod EXCEPT !.AI = c, !.PK = <<c>>], Ok)

\* m.setAI(col, nil): the AI column is made the primary key
setAI(mod, c) ==
    IF mod.cols[c].HasDefault THEN Applied(mod, ErrProperty)
    ELSE IF mod.cols[c].Nullable THEN Applied(mod, ErrProperty)
    ELSE IF ~mod.cols[c].int THEN Applied(mod, ErrProperty)
    ELSE Applied([mod EXCEPT !.AI = c, !.PK = <<c>>], Ok)

\* col.setNullable(vals): b is the value vals stand for
setNullable(mod, c, b) ==
    IF b /\ mod.AI = c THEN Applied(mod, ErrProperty)
    ELSE Applied([mod EXCEPT !.cols[c].Nullable = b], Ok)

\* m.setDefault(col, vals), one value given
setDefault(mod, c) ==
    IF mod.AI = c THEN Applied(mod, ErrProperty)
    ELSE IF mod.PK = <<c>> THEN Applied(mod, ErrProperty)
    ELSE Applied([mod EXCEPT !.cols[c].HasDefault = TRUE], Ok)

\* m.setPK(col, nil)
setPK(mod, c) ==
    IF mod.AI = c THEN Applied(mod, ErrProperty)
    ELSE Applied([mod EXCEPT !.PK = Append(mod.PK, c)], Ok)

\* a model with its columns declared and no property applied yet
FreshModel(ints) ==
    [cols |-> [c \in ColIds |-> Column(ints[c], FALSE, FALSE)],
     AI |-> "", PK |-> <<>>,
     KeyIndexes |-> {}, UniqueIndexes |-> {}, FK |-> {}, Check |-> {},
     constraints |-> <<>>]

InitProps ==
    /\ pc = "call"
    /\ NoFetch /\ NoCrud /\ NoCreate /\ NoRegistry
    /\ \E ints \in [ColIds -> BOOLEAN] : mc = FreshModel(ints)
    /\ mret = [op |-> "", arg |-> "", flag |-> FALSE, pre |-> <<>>, err |-> Ok]

\* the column c and its place in the model before a property is applied
Pre(mod, c) == [col |-> mod.cols[c], isAI |-> mod.AI = c, PK |-> mod.PK]

ApplyTo(name, c, b, r) ==
    /\ mc' = r.mc
    /\ mret' = [op |-> name, arg |-> c, flag |-> b, pre |-> Pre(mc, c), err |-> r.err]
    /\ UNCHANGED <<pc, fvars, cvars, dvars, rvars>>

SetAI == \E c \in ColIds : ApplyTo("ai", c, FALSE, setAI(mc, c))

SetNullable ==
    \E c \in ColIds, b \in BOOLEAN : ApplyTo("nullable", c, b, setNullable(mc, c, b))

SetDefault == \E c \in ColIds : ApplyTo("default", c, FALSE, setDefault(mc, c))

SetPK ==
    /\ Len(mc.PK) < MaxPK
    /\ \E c \in ColIds : ApplyTo("pk", c, FALSE, setPK(mc, c))

NextProps == SetAI \/ SetNullable \/ SetDefault \/ SetPK

SpecProps == InitProps /\ [][NextProps]_vars

\* the AI column is an integer column, not nullable, without a default
AIColumnSound ==
    mc.AI # "" => /\ mc.cols[mc.AI].int
                  /\ ~mc.cols[mc.AI].Nullable
                  /\ ~mc.cols[mc.AI].HasDefault

\* (C14) Whatever properties were applied, in whatever order, the AI column
\* is an integer column, not nullable and without a default: ai fails on a
\* column that has a default, is nullable or is not an integer, nullable
\* (true) and default fail on the AI column, and pk fails on the AI column.
C14_AIColumn ==
    /\ AIColumnSound
    /\ (mret.op = "ai" /\ (mret.pre.col.HasDefault \/ mret.pre.col.Nullable
                                \/ ~mret.pre.col.int)) => mret.err # Ok
    /\ (mret.op = "nullable" /\ mret.flag /\ mret.pre.isAI) => mret.err # Ok
    /\ (mret.op \in {"default", "pk"} /\ mret.pre.isAI) => mret.err # Ok

\* default was refused on the AI column
C14_Witness ==
    /\ mret.op = "default" /\ mret.pre.isAI /\ mret.err # Ok
    /\ mc.AI = mret.arg

\* -------------------------------------------------------------- constraints
\* conType
none == "<none>"
index == "KEY INDEX"
unique == "UNIQUE INDEX"
fk == "FOREIGN KEY"
check == "CHECK"
ConTypes == {index, unique, fk, check}

\* constraint names; "CK" is "ck" in another case
ConNames == {"ck", "CK", "fk"}
\* strings.ToLower
ToLower(name) == IF name = "CK" THEN "ck" ELSE name

\* hasConstraint comparing the names as they are written
hasConstraintExact(mod, name, except) ==
    LET hits == {k \in DOMAIN mod.constraints :
                    mod.constraints[k] # except /\ k = name}
    IN IF hits = {} THEN {none} ELSE {mod.constraints[k] : k \in hits}

\* m.hasConstraint(name, except): the kind of a constraint of that name,
\* whatever its case, that is not of the kind except; none without one.
\* The result is the set of values the range over the map can end on.
hasConstraint(mod, name, except) ==
    LET hits == {k \in DOMAIN mod.constraints :
                    mod.constraints[k] # except /\ ToLower(k) = ToLower(name)}
    IN IF hits = {} THEN {none} ELSE {mod.constraints[k] : k \in hits}

\* the names registered under a kind
NamesOf(mod, kind) ==
    CASE kind = index -> mod.KeyIndexes
      [] kind = unique -> mod.UniqueIndexes
      [] kind = fk -> mod.FK
      [] kind = check -> mod.Check

\* the model with name registered under kind
Registered(mod, kind, name) ==
    LET cons == (name :> kind) @@ mod.constraints
    IN CASE kind = index -> [mod EXCEPT !.KeyIndexes = @ \cup {name}, !.constraints = cons]
         [] kind = unique -> [mod EXCEPT !.UniqueIndexes = @ \cup {name}, !.constraints = cons]
         [] kind = fk -> [mod EXCEPT !.FK = @ \cup {name}, !.constraints = cons]
         [] kind = check -> [mod EXCEPT !.Check = @ \cup {name}, !.constraints = cons]

\* index(name) / unique(name) on a column: several columns may join the
\* index of one name; a constraint of another kind with the name is an error
setIndex(mod, kind, name) ==
    IF hasConstraint(mod, name, kind) # {none} THEN Applied(mod, ErrProperty)
    ELSE Applied(Registered(mod, kind, name), Ok)

\* fk(name, ...) and check(name, expr): the name may be neither a constraint
\* of the same kind nor one of another kind
setNamed(mod, kind, name) ==
    IF name \in NamesOf(mod, kind) THEN Applied(mod, ErrProperty)
    ELSE IF hasConstraint(mod, name, kind) # {none} THEN Applied(mod, ErrProperty)
    ELSE Applied(Registered(mod, kind, name), Ok)

InitCons ==
    /\ pc = "call"
    /\ NoFetch /\ NoCrud /\ NoCreate /\ NoRegistry
    /\ NoCompile

ApplyCon(name, kind, n, r) ==
    /\ mc' = r.mc
    /\ mret' = [op |-> name, arg |-> n, flag |-> FALSE,
                pre |-> [cons |-> mc.constraints, kind |-> kind, res |-> none],
                err |-> r.err]
    /\ UNCHANGED <<pc, fvars, cvars, dvars, rvars>>

SetIndex ==
    \E kind \in {index, unique}, n \in ConNames :
        ApplyCon("index", kind, n, setIndex(mc, kind, n))

SetFK == \E n \in ConNames : ApplyCon("fk", fk, n, setNamed(mc, fk, n))

ParseMetaCheck == \E n \in ConNames : ApplyCon("check", check, n, setNamed(mc, check, n))

HasConstraint ==
    /\ \E n \in ConNames, kind \in ConTypes :
         \E res \in hasConstraint(mc, n, kind) :
            mret' = [op |-> "hasConstraint", arg |-> n, flag |-> FALSE,
                     pre |-> [cons |-> mc.constraints, kind |-> kind, res |-> res],
                     err |-> Ok]
    /\ UNCHANGED <<mc, pc, fvars, cvars, dvars, rvars>>

NextCons == SetIndex \/ SetFK \/ ParseMetaCheck \/ HasConstraint

SpecCons == InitCons /\ [][NextCons]_vars

\* the constraints of another kind than kind whose name is n in some case
OtherKinds(cons, n, kind) ==
    {cons[k] : k \in {x \in DOMAIN cons : ToLower(x) = ToLower(n) /\ cons[x] # kind}}

\* (C15) No constraint name, in whatever case, is registered under two
\* kinds, and the private map knows every constraint by its kind; a check
\* whose name is a check already or a constraint of another kind is
\* refused; hasConstraint reports the kind of a constraint of the name (in
\* whatever case) and another kind, and none when there is only one of the
\* same kind or none at all.
C15_ConstraintNames ==
    /\ \A k1, k2 \in ConTypes : \A n1 \in NamesOf(mc, k1), n2 \in NamesOf(mc, k2) :
          ToLower(n1) = ToLower(n2) => k1 = k2
    /\ DOMAIN mc.constraints = UNION {NamesOf(mc, k) : k \in ConTypes}
    /\ \A n \in DOMAIN mc.constraints : n \in NamesOf(mc, mc.constraints[n])
    /\ (mret.op = "check"
          /\ (mret.arg \in DOMAIN mret.pre.cons
                \/ OtherKinds(mret.pre.cons, mret.arg, check) # {}))
          => (mret.err # Ok /\ mc.constraints = mret.pre.cons)
    /\ mret.op = "hasConstraint"
          => IF OtherKinds(mret.pre.cons, mret.arg, mret.pre.kind) = {}
             THEN mret.pre.res = none
             ELSE mret.pre.res \in OtherKinds(mret.pre.cons, mret.arg, mret.pre.kind)

\* hasConstraint("CK", fk) reported a check registered as "ck"
C15_Witness ==
    /\ mret.op = "hasConstraint" /\ mret.arg = "CK" /\ mret.pre.kind = fk
    /\ "ck" \in mc.Check /\ "CK" \notin DOMAIN mc.constraints
    /\ mret.pre.res = check

\* ------------------------------------------------------ fetcher: field map
\* The fields a record type is made of here: two scalars, a scalar with a
\* tag starting with '-', an unexported scalar, two anonymously embedded
\* structs and a named struct.
FieldKinds ==
    { Scalar("A", "a"),
      Scalar("B", "b"),
      Fld("C", TRUE, TRUE, "", FALSE, "scalar", <<>>),
      Fld("d", FALSE, FALSE, "", FALSE, "scalar", <<>>),
      Fld("E1", TRUE, FALSE, "", TRUE, "struct", << Scalar("A", "a") >>),
      Fld("E2", TRUE, FALSE, "", TRUE, "struct", << Scalar("B", "b"), Scalar("A", "a") >>),
      Fld("S", TRUE, FALSE, "s", FALSE, "struct", << Scalar("A", "a") >>) }

ParseTypes == SeqsUpTo(FieldKinds, MaxFields)

InitParse ==
    /\ pc = "call"
    /\ NoCrud
    /\ NoCreate /\ NoRegistry /\ NoCompile
    /\ rtype \in ParseTypes
    /\ hook = "none"
    /\ cols = <<>>
    /\ rows = <<>>
    /\ obj0 = Recv(TRUE, "Struct", "None", <<Elem(FALSE, PriorRecord(rtype))>>)
    /\ obj = obj0
    /\ cnt = 0
    /\ err = Ok
    /\ events = <<>>
    /\ parsed = NoParsed

\* err := parseObject(v, &ret)
ParseObject ==
    /\ pc = "call"
    /\ parsed' = parseObject(rtype, obj0.items[1], EmptyMap)
    /\ pc' = "done"
    /\ UNCHANGED <<rtype, hook, cols, rows, obj0, obj, cnt, err, events>>
    /\ UNCHANGED <<cvars, xvars>>

NextParse == ParseObject

SpecParse == InitParse /\ [][NextParse]_vars

\* the column names of the fields of one struct that take part in the map
RECURSIVE NamesIn(_, _)
NamesIn(fields, prefix) ==
    IF Len(fields) = 0 THEN <<>>
    ELSE LET f == Head(fields)
         IN (IF f.anon THEN NamesIn(f.sub, prefix)
             ELSE IF getName(f) = "" THEN <<>>
             ELSE IF f.kind = "struct" THEN NamesIn(f.sub, prefix \o getName(f) \o ".")
             ELSE <<prefix \o getName(f)>>)
            \o NamesIn(Tail(fields), prefix)

\* the names after flattening, one per field, in declaration order
FlatNames(T) == NamesIn(T, "")
Collides(T) == \E i, j \in 1..Len(FlatNames(T)) : i # j /\ FlatNames(T)[i] = FlatNames(T)[j]

\* (C16) Building the field map fails with the duplicate-name error whenever
\* two fields have the same column name after flattening; when it succeeds
\* the map holds every field under its name.
C16_DuplicateNames ==
    Done => /\ Collides(rtype) => parsed.err = ErrDupName
            /\ parsed.err = Ok
                 => /\ DOMAIN parsed.map
                         = {FlatNames(rtype)[i] : i \in 1..Len(FlatNames(rtype))}
                    /\ Cardinality(DOMAIN parsed.map) = Len(FlatNames(rtype))

\* ------------------------------------------------- CRUD: choice of the key
\* the unique indexes of the models in the order they were declared
IndexOrder == <<"u1", "u2">>

QualifyingIndexes(r) ==
    {u \in DOMAIN m.UniqueIndexes : Qualifies(r, m.UniqueIndexes[u])}

\* the first unique index, in declaration order, that qualifies for r
FirstDeclared(r) ==
    IndexOrder[CHOOSE i \in 1..Len(IndexOrder) :
                  /\ IndexOrder[i] \in QualifyingIndexes(r)
                  /\ \A j \in 1..(i - 1) : IndexOrder[j] \notin QualifyingIndexes(r)]

\* the primary key of r does not qualify and two or more unique indexes do
SeveralQualify(r) ==
    /\ ~Qualifies(r, m.PK)
    /\ Cardinality(QualifyingIndexes(r)) >= 2

\* (C17) When the primary key does not qualify and two or more unique
\* indexes do, the keyed WHERE is built on the first of them in declaration
\* order, so the same model and record always give the same WHERE columns.
C17_FirstDeclaredIndex ==
    /\ (Done /\ op \in {"find", "forUpdate", "del", "update"} /\ cerr = Ok
          /\ SeveralQualify(objs[1]))
          => built.wkeys = m.UniqueIndexes[FirstDeclared(objs[1])]
    /\ (Done /\ op \in {"findMult", "updateMult", "deleteMult"}) =>
          \A i \in 1..Len(sent) :
              SeveralQualify(objs[i])
                  => sent[i].wkeys = m.UniqueIndexes[FirstDeclared(objs[i])]

\* ---------------------------------------------- CRUD: shape of the WHERE
\* " WHERE " c1 "=?" " AND " c2 "=?" ...: one condition per column, joined
\* pairwise by AND
AndText(cs) ==
    <<" WHERE ">>
        \o Flatten([i \in 1..Len(cs) |->
                      IF i = 1 THEN <<cs[i], "=?">> ELSE <<" AND ", cs[i], "=?">>])

\* the key of two or more columns the WHERE of r is built on, <<>> for none
CompositeKey(r) ==
    IF Qualifies(r, m.PK)
    THEN (IF Len(m.PK) >= 2 THEN m.PK ELSE <<>>)
    ELSE IF \E u \in DOMAIN m.UniqueIndexes :
                Qualifies(r, m.UniqueIndexes[u]) /\ Len(m.UniqueIndexes[u]) >= 2
    THEN m.UniqueIndexes[CHOOSE u \in DOMAIN m.UniqueIndexes :
                Qualifies(r, m.UniqueIndexes[u]) /\ Len(m.UniqueIndexes[u]) >= 2]
    ELSE <<>>

\* (C19) The WHERE built on a composite primary key of k >= 2 non-zero
\* columns has k conditions col=?, one per column in key order, joined
\* pairwise by AND, with the k values as arguments in the same order; the
\* WHERE built on a composite unique index has the same shape.
C19_CompositeWhere ==
    /\ (Done /\ op \in {"find", "forUpdate", "del", "update"} /\ cerr = Ok
          /\ CompositeKey(objs[1]) # <<>>)
          => /\ built.wkeys = CompositeKey(objs[1])
             /\ Aligned(objs[1], built.wkeys, built.wvals)
    /\ (Done /\ op \in {"findMult", "updateMult", "deleteMult"}) =>
          \A i \in 1..Len(sent) :
              CompositeKey(objs[i]) # <<>>
                  => /\ sent[i].wtext = AndText(CompositeKey(objs[i]))
                     /\ sent[i].wkeys = CompositeKey(objs[i])
                     /\ Aligned(objs[i], sent[i].wkeys, sent[i].wvals)

\* ------------------------------------------ CRUD: no statement unkeyed
KeyedKinds == {"UPDATE", "DELETE", "SELECT", "SELECT FOR UPDATE"}
\* neither the primary key nor a unique index qualifies for r
WhereFails(r) == ~Qualifies(r, m.PK) /\ ~AnyUniqueQualifies(r)

\* (C20) Every UPDATE, DELETE and keyed SELECT handed to the engine has a
\* WHERE of at least one condition, with one argument per condition; when
\* no key qualifies for a record the call returns an error and hands the
\* engine no statement for that record, whatever SET list was built.
C20_NoUnkeyedStatement ==
    /\ Done =>
          \A i \in 1..Len(sent) :
              sent[i].kind \in KeyedKinds
                  => /\ Len(sent[i].wkeys) >= 1
                     /\ Len(sent[i].wvals) = Len(sent[i].wkeys)
    /\ (Done /\ op \in {"find", "forUpdate", "del", "update"} /\ WhereFails(objs[1]))
          => /\ sent = <<>>
             /\ cerr \in {ErrNoWhereKey, ErrNoField}
    /\ (Done /\ op \in {"findMult", "updateMult", "deleteMult"}) =>
          \A i \in 1..Len(objs) :
              WhereFails(objs[i])
                  => /\ Len(sent) < i
                     /\ cerr \in {ErrNoWhereKey, ErrNoField}

\* update had built a SET list on the listed column when the keyed WHERE
\* failed: nothing was executed
C20_Witness ==
    /\ Done /\ op = "update" /\ cerr = ErrNoWhereKey
    /\ WhereFails(objs[1])
    /\ allow # <<>> /\ built.kind = "UPDATE" /\ Len(built.keys) >= 1
    /\ sent = <<>>

====
